---- MODULE Spec2Model ----
(***************************************************************************)
(* Static-graph bookkeeping utilities of                                   *)
(* chainer/graph_optimizations/static_graph_utilities.py.                  *)
(*                                                                         *)
(* Python objects are modelled by identity: an array is a buffer id with a *)
(* contents value, a Variable is an id with a `data` reference to a        *)
(* buffer, a FunctionNode is an id with its optional attributes.  Python   *)
(* list and tuple positions stay 0-based as in the source; the TLA+        *)
(* sequence that holds a list keeps position i at index i + 1.             *)
(***************************************************************************)
EXTENDS Integers, Sequences, FiniteSets, TLC

\* ---------------------------------------------------------------- bounds
NSlots == 2
NumArgs == 2
MaxInfo == 2
NFuncs == 1
MaxVal == 2

\* ---------------------------------------------------------------- objects
None == "None"
TheSchedule == "schedule"

\* The value of schedule_func for a function node without that attribute.
\* An attribute bound to None is present: hasattr is True of it.
Missing == "missing"

Slot == 0 .. (NSlots - 1)
Position == 0 .. (NumArgs - 1)
Func == 1 .. NFuncs
Val == 0 .. MaxVal

NoBuf == 0
RegisteredBuf == 1 .. NSlots
UnregisteredBuf == NSlots + 1
StaticInBuf == (NSlots + 2) .. (2 * NSlots + 1)
HeapSize == NumArgs + NSlots + 1
HeapBuf == (2 * NSlots + 2) .. (2 * NSlots + 1 + HeapSize)
Buf == 1 .. (2 * NSlots + 1 + HeapSize)

InputVars == 1 .. (NSlots + 2)
GradVars == (NSlots + 3) .. (NSlots + 2 + NumArgs)
Var == InputVars \cup GradVars

VARIABLES
    config_schedule_func,
    schedule_func,
    supports_static_optimizations,
    forward_static_arrays_info,
    backward_static_arrays_info,
    data,
    content,
    input_var_array_to_static_array_index,
    in_arrays,
    out_arrays,
    is_static,
    call,
    pre

vars == <<config_schedule_func, schedule_func, supports_static_optimizations,
          forward_static_arrays_info, backward_static_arrays_info, data,
          content, input_var_array_to_static_array_index, in_arrays,
          out_arrays, is_static, call, pre>>

\* The program's state is chainer.config.schedule_func, the attributes of the
\* function nodes, the variables' data references, the arrays' contents and
\* the tables of the forward schedule and of its backward schedule, and the
\* variables' is_static marks.  `call`
\* is the last call made (its name, arguments, the exception it raised,
\* None when it returned, and the value a query returned); `pre` is the program's state when it was made.
Snapshot ==
    [config_schedule_func |-> config_schedule_func,
     schedule_func |-> schedule_func,
     supports_static_optimizations |-> supports_static_optimizations,
     forward_static_arrays_info |-> forward_static_arrays_info,
     backward_static_arrays_info |-> backward_static_arrays_info,
     data |-> data,
     content |-> content,
     input_var_array_to_static_array_index |-> input_var_array_to_static_array_index,
     in_arrays |-> in_arrays,
     out_arrays |-> out_arrays,
     is_static |-> is_static]

Call(name, func, args, err) ==
    [name |-> name, func |-> func, args |-> args, err |-> err,
     replayed |-> FALSE, ret |-> None]

Returns(name, func, args) == call' = Call(name, func, args, None) /\ pre' = Snapshot

\* An optional list attribute of a function node: absent, or a list.
Absent == [has |-> FALSE, items |-> <<>>]

\* ---------------------------------------------------------------- initial state
\* Input variables: one per registered input array, a second wrapper of the
\* first registered array, and one whose array is not registered but holds
\* the same contents.  Gradient variables: one freshly allocated array each.
InitData ==
    [v \in Var |->
        IF v \in RegisteredBuf THEN v
        ELSE IF v = NSlots + 1 THEN 1
        ELSE IF v = NSlots + 2 THEN UnregisteredBuf
        ELSE (2 * NSlots + 2) + (v - (NSlots + 3))]

InitContent ==
    [b \in Buf |->
        IF b \in RegisteredBuf \cup {UnregisteredBuf} THEN 1
        ELSE IF b \in StaticInBuf THEN 0
        ELSE IF \E v \in GradVars : InitData[v] = b
             THEN 1 + ((b - (2 * NSlots + 2)) % MaxVal)
        ELSE 0]

Init ==
    /\ config_schedule_func = None
    /\ schedule_func = [f \in Func |-> Missing]
    /\ supports_static_optimizations \in [Func -> BOOLEAN]
    /\ forward_static_arrays_info = [f \in Func |-> Absent]
    /\ backward_static_arrays_info = [f \in Func |-> Absent]
    /\ data = InitData
    /\ content = InitContent
    /\ input_var_array_to_static_array_index = [b \in RegisteredBuf |-> b - 1]
    /\ in_arrays = [s \in Slot |-> NSlots + 2 + s]
    /\ out_arrays = [s \in Slot |-> NoBuf]
    /\ is_static = [v \in Var |-> FALSE]
    /\ call = Call("init", 1, <<>>, None)
    /\ pre = Snapshot

\* ---------------------------------------------------------------- queries
IsStaticFuncNever(func) == FALSE

\* hasattr(func, 'schedule_func')
is_static_func(func) == schedule_func[func] # Missing

\* getattr(func, 'schedule_func', None)
get_static_schedule(func) ==
    IF schedule_func[func] = Missing THEN None ELSE schedule_func[func]

\* The two queries as calls: the value returned is recorded, nothing else
\* is written.
call_is_static_func(func) ==
    /\ call' = [Call("is_static_func", func, <<>>, None) EXCEPT
                    !.ret = is_static_func(func)]
    /\ pre' = Snapshot
    /\ UNCHANGED <<config_schedule_func, schedule_func,
                   supports_static_optimizations, forward_static_arrays_info,
                   backward_static_arrays_info, data, content,
                   input_var_array_to_static_array_index, in_arrays,
                   out_arrays, is_static>>

call_get_static_schedule(func) ==
    /\ call' = [Call("get_static_schedule", func, <<>>, None) EXCEPT
                    !.ret = get_static_schedule(func)]
    /\ pre' = Snapshot
    /\ UNCHANGED <<config_schedule_func, schedule_func,
                   supports_static_optimizations, forward_static_arrays_info,
                   backward_static_arrays_info, data, content,
                   input_var_array_to_static_array_index, in_arrays,
                   out_arrays, is_static>>

TraceModeIgnored == TRUE

\* chainer.config.schedule_func is not None
is_trace_mode == config_schedule_func # None

\* ---------------------------------------------------------------- marking
\* var.is_static = True
MarkStatic(flags, var) == [flags EXCEPT ![var] = TRUE]

\* for var in input_vars
RECURSIVE MarkLoop(_, _, _)
MarkLoop(flags, input_vars, n) ==
    IF n = 0 THEN flags
    ELSE MarkStatic(MarkLoop(flags, input_vars, n - 1), input_vars[n])

mark_static_vars(input_vars) ==
    /\ is_static' = IF is_trace_mode
                    THEN MarkLoop(is_static, input_vars, Len(input_vars))
                    ELSE is_static
    /\ call' = Call("mark_static_vars", 1, input_vars, None)
    /\ pre' = Snapshot
    /\ UNCHANGED <<config_schedule_func, schedule_func,
                   supports_static_optimizations, forward_static_arrays_info,
                   backward_static_arrays_info, data, content,
                   input_var_array_to_static_array_index, in_arrays, out_arrays>>

\* ---------------------------------------------------------------- forward bookkeeping
NoSlot == -1

LookupByContent(buf) ==
    IF \E r \in DOMAIN input_var_array_to_static_array_index : content[r] = content[buf]
    THEN input_var_array_to_static_array_index[
             CHOOSE r \in DOMAIN input_var_array_to_static_array_index :
                 content[r] = content[buf]]
    ELSE NoSlot

\* id(var.data) in schedule_function._input_var_array_to_static_array_index,
\* and the index stored under that key.
LookupStaticIndex(buf) ==
    IF buf \in DOMAIN input_var_array_to_static_array_index
    THEN input_var_array_to_static_array_index[buf]
    ELSE NoSlot

OverwriteInfo(info, pair) == [has |-> TRUE, items |-> <<pair>>]

\* getattr(func, '_forward_static_arrays_info', None); a new list when it is
\* None; append the pair.
AppendInfo(info, pair) == [has |-> TRUE, items |-> Append(info.items, pair)]

AppendUnlessSlotRecorded(info, pair) ==
    IF \E k \in 1 .. Len(info.items) : info.items[k][2] = pair[2]
    THEN info
    ELSE AppendInfo(info, pair)

\* One iteration of the loop over enumerate(in_vars).
ForwardStep(info, pair) == AppendInfo(info, pair)

RECURSIVE ForwardLoop(_, _, _)
ForwardLoop(info, in_vars, func_arg_index) ==
    IF func_arg_index >= Len(in_vars) THEN info
    ELSE LET var == in_vars[func_arg_index + 1]
             chain_arg_index == LookupStaticIndex(data[var])
         IN  IF chain_arg_index # NoSlot
             THEN ForwardLoop(ForwardStep(info, <<func_arg_index, chain_arg_index>>),
                              in_vars, func_arg_index + 1)
             ELSE ForwardLoop(info, in_vars, func_arg_index + 1)

ForwardErrorInsideMatch(func, info) ==
    IF info.has /\ ~supports_static_optimizations[func] THEN "RuntimeError" ELSE None

\* The check after the loop: RuntimeError unless the function supports
\* static optimizations.  `info` is the function's list after the loop.
ForwardError(func, info) ==
    IF ~supports_static_optimizations[func] THEN "RuntimeError" ELSE None

ForwardAlwaysActive == TRUE

\* schedule_function is not None: the guard of the whole body.
ForwardActive == config_schedule_func # None

static_forward_optimizations(func, in_vars) ==
    /\ IF ForwardActive
       THEN \E info \in {ForwardLoop(forward_static_arrays_info[func], in_vars, 0)} :
                /\ Len(info.items) <= MaxInfo
                /\ forward_static_arrays_info' =
                       [forward_static_arrays_info EXCEPT ![func] = info]
                /\ call' = Call("static_forward_optimizations", func, in_vars,
                                ForwardError(func, info))
       ELSE /\ forward_static_arrays_info' = forward_static_arrays_info
            /\ call' = Call("static_forward_optimizations", func, in_vars, None)
    /\ pre' = Snapshot
    /\ UNCHANGED <<config_schedule_func, schedule_func,
                   supports_static_optimizations, backward_static_arrays_info,
                   data, content, input_var_array_to_static_array_index,
                   in_arrays, out_arrays,
                   is_static>>

\* ---------------------------------------------------------------- environment
\* Trace-mode management: chainer.config.schedule_func is set on entry of a
\* static chain's trace pass and cleared on exit.
EnterTrace ==
    /\ config_schedule_func = None
    /\ config_schedule_func' = TheSchedule
    /\ Returns("env", 1, <<>>)
    /\ UNCHANGED <<schedule_func, supports_static_optimizations,
                   forward_static_arrays_info, backward_static_arrays_info,
                   data, content, input_var_array_to_static_array_index,
                   in_arrays, out_arrays,
                   is_static>>

ExitTrace ==
    /\ config_schedule_func # None
    /\ config_schedule_func' = None
    /\ Returns("env", 1, <<>>)
    /\ UNCHANGED <<schedule_func, supports_static_optimizations,
                   forward_static_arrays_info, backward_static_arrays_info,
                   data, content, input_var_array_to_static_array_index,
                   in_arrays, out_arrays,
                   is_static>>

\* The schedule attaches itself to a function node executed under trace mode.
SetScheduleFunc(func) ==
    /\ config_schedule_func # None
    /\ schedule_func[func] = Missing
    /\ schedule_func' = [schedule_func EXCEPT ![func] = config_schedule_func]
    /\ Returns("env", 1, <<>>)
    /\ UNCHANGED <<config_schedule_func, supports_static_optimizations,
                   forward_static_arrays_info, backward_static_arrays_info,
                   data, content, input_var_array_to_static_array_index,
                   in_arrays, out_arrays,
                   is_static>>

\* The static chain records which outputs of a function node are outputs of
\* the chain: (position among the function's outputs, chain output index).
RecordBackwardInfo(func, func_arg_index, chain_arg_index) ==
    /\ config_schedule_func # None
    /\ Len(backward_static_arrays_info[func].items) < MaxInfo
    /\ backward_static_arrays_info' =
           [backward_static_arrays_info EXCEPT
               ![func] = [has |-> TRUE,
                          items |-> Append(@.items,
                                           <<func_arg_index, chain_arg_index>>)]]
    /\ Returns("env", 1, <<>>)
    /\ UNCHANGED <<config_schedule_func, schedule_func,
                   supports_static_optimizations, forward_static_arrays_info,
                   data, content, input_var_array_to_static_array_index,
                   in_arrays, out_arrays,
                   is_static>>

\* ---------------------------------------------------------------- heap
\* Arrays allocated while the program runs live in HeapBuf.  An array is
\* alive while a variable or an output slot of the backward schedule
\* references it; a dead array's storage is released (reference counting).
Referenced(d, o) == {d[v] : v \in Var} \cup {o[s] : s \in Slot}

Collect(c, d, o) ==
    LET live == Referenced(d, o)
    IN  [b \in Buf |-> IF b \in HeapBuf /\ b \notin live THEN 0 ELSE c[b]]

\* ndarray.copy(): a new array, distinct from every live one.  It may take
\* the storage, and so the id, of an array released before.
NewArray(d, o) ==
    LET free == HeapBuf \ Referenced(d, o)
    IN  CHOOSE b \in free : \A b2 \in free : b <= b2

\* ---------------------------------------------------------------- backward, outputs side
ForwardInfoOf(func) == forward_static_arrays_info[func]

\* getattr(func, '_backward_static_arrays_info', None): the list the outputs
\* side works from; nothing is done when it is None.
BackwardOutputsInfo(func) == backward_static_arrays_info[func]

KeepContents(c, dst, src) == c

\* backward_schedule._in_arrays[chain_arg_index][:] = input_var.data
CopyInto(c, dst, src) == [c EXCEPT ![dst] = c[src]]

\* input_var.data = backward_schedule._in_arrays[chain_arg_index]
Rebind(d, var, buf) == [d EXCEPT ![var] = buf]

BackwardOutputsStepByPosition(st, pair, grad_outputs) ==
    LET func_arg_index == pair[1]
        input_var == grad_outputs[func_arg_index + 1]
        static_array == in_arrays[func_arg_index]
    IN  [data |-> Rebind(st.data, input_var, static_array),
         content |-> CopyInto(st.content, static_array, st.data[input_var])]

BackwardOutputsStep(st, pair, grad_outputs) ==
    LET func_arg_index == pair[1]
        chain_arg_index == pair[2]
        input_var == grad_outputs[func_arg_index + 1]
        static_array == in_arrays[chain_arg_index]
    IN  [data |-> Rebind(st.data, input_var, static_array),
         content |-> CopyInto(st.content, static_array, st.data[input_var])]

RECURSIVE BackwardOutputsLoop(_, _, _, _)
BackwardOutputsLoop(st, info, grad_outputs, n) ==
    IF n = 0 THEN st
    ELSE LET before == BackwardOutputsLoop(st, info, grad_outputs, n - 1)
         IN  CHOOSE after \in {BackwardOutputsStep(before, info[n], grad_outputs)} : TRUE

check_func_backward_outputs(func, grad_outputs) ==
    /\ IF BackwardOutputsInfo(func).has
       THEN IF get_static_schedule(func) = None
            THEN /\ call' = Call("check_func_backward_outputs", func,
                                 grad_outputs, "AttributeError")
                 /\ UNCHANGED <<data, content>>
            ELSE \E st \in {BackwardOutputsLoop(
                                [data |-> data, content |-> content],
                                BackwardOutputsInfo(func).items,
                                grad_outputs,
                                Len(BackwardOutputsInfo(func).items))} :
                     /\ data' = st.data
                     /\ content' = Collect(st.content, st.data, out_arrays)
                     /\ call' = Call("check_func_backward_outputs", func,
                                     grad_outputs, None)
       ELSE /\ call' = Call("check_func_backward_outputs", func, grad_outputs, None)
            /\ UNCHANGED <<data, content>>
    /\ pre' = Snapshot
    /\ UNCHANGED <<config_schedule_func, schedule_func,
                   supports_static_optimizations, forward_static_arrays_info,
                   backward_static_arrays_info,
                   input_var_array_to_static_array_index, in_arrays, out_arrays,
                   is_static>>

\* ---------------------------------------------------------------- backward, inputs side
\* getattr(func, '_forward_static_arrays_info', None): the list the inputs
\* side works from; nothing is done when it is None.
BackwardInputsInfo(func) == forward_static_arrays_info[func]

SetOutArrayIfUnset(o, chain_arg_index, buf) ==
    IF o[chain_arg_index] = NoBuf THEN [o EXCEPT ![chain_arg_index] = buf] ELSE o

\* backward_schedule._out_arrays[chain_arg_index] = grad_inputs[func_arg_index].data
SetOutArray(o, chain_arg_index, buf) == [o EXCEPT ![chain_arg_index] = buf]

KeepAlias(st, var) == st

\* grad_inputs[func_arg_index].data = grad_inputs[func_arg_index].data.copy()
ReplaceByCopy(st, var) ==
    LET new == NewArray(st.data, st.out)
    IN  [data |-> [st.data EXCEPT ![var] = new],
         content |-> [st.content EXCEPT ![new] = st.content[st.data[var]]],
         out |-> st.out]

BackwardInputsStep(st, pair, grad_inputs) ==
    LET func_arg_index == pair[1]
        chain_arg_index == pair[2]
        var == grad_inputs[func_arg_index + 1]
    IN  ReplaceByCopy([data |-> st.data,
                       content |-> st.content,
                       out |-> SetOutArray(st.out, chain_arg_index, st.data[var])],
                      var)

RECURSIVE BackwardInputsLoop(_, _, _, _)
BackwardInputsLoop(st, info, grad_inputs, n) ==
    IF n = 0 THEN st
    ELSE LET before == BackwardInputsLoop(st, info, grad_inputs, n - 1)
         IN  CHOOSE after \in {BackwardInputsStep(before, info[n], grad_inputs)} : TRUE

check_func_backward_inputs(func, grad_inputs) ==
    /\ IF BackwardInputsInfo(func).has
       THEN IF get_static_schedule(func) = None
            THEN /\ call' = Call("check_func_backward_inputs", func,
                                 grad_inputs, "AttributeError")
                 /\ UNCHANGED <<data, content, out_arrays>>
            ELSE \E st \in {BackwardInputsLoop(
                                [data |-> data, content |-> content,
                                 out |-> out_arrays],
                                BackwardInputsInfo(func).items,
                                grad_inputs,
                                Len(BackwardInputsInfo(func).items))} :
                     /\ data' = st.data
                     /\ out_arrays' = st.out
                     /\ content' = Collect(st.content, st.data, st.out)
                     /\ call' = Call("check_func_backward_inputs", func,
                                     grad_inputs, None)
       ELSE /\ call' = Call("check_func_backward_inputs", func, grad_inputs, None)
            /\ UNCHANGED <<data, content, out_arrays>>
    /\ pre' = Snapshot
    /\ UNCHANGED <<config_schedule_func, schedule_func,
                   supports_static_optimizations, forward_static_arrays_info,
                   backward_static_arrays_info,
                   input_var_array_to_static_array_index, in_arrays,
                   is_static>>

\* A replay of the backward schedule writes a slot's output array in place.
\* After an inputs-side call the record of that call is kept, marked.
MutateOutArray(chain_arg_index, v) ==
    /\ out_arrays[chain_arg_index] # NoBuf
    /\ content[out_arrays[chain_arg_index]] # v
    /\ content' = [content EXCEPT ![out_arrays[chain_arg_index]] = v]
    /\ IF call.name = "check_func_backward_inputs"
       THEN call' = [call EXCEPT !.replayed = TRUE] /\ pre' = pre
       ELSE Returns("env", 1, <<>>)
    /\ UNCHANGED <<config_schedule_func, schedule_func,
                   supports_static_optimizations, forward_static_arrays_info,
                   backward_static_arrays_info, data,
                   input_var_array_to_static_array_index, in_arrays, out_arrays,
                   is_static>>

\* ---------------------------------------------------------------- specifications
\* The lists of variables passed to mark_static_vars.
VarLists == UNION {[1 .. n -> Var] : n \in 0 .. NumArgs}

Next ==
    \/ EnterTrace
    \/ ExitTrace
    \/ \E func \in Func : SetScheduleFunc(func)
    \/ \E func \in Func, p \in Position, s \in Slot : RecordBackwardInfo(func, p, s)
    \/ \E func \in Func, in_vars \in [1 .. NumArgs -> InputVars] :
           static_forward_optimizations(func, in_vars)
    \/ \E func \in Func, grad_outputs \in [1 .. NumArgs -> GradVars] :
           check_func_backward_outputs(func, grad_outputs)
    \/ \E func \in Func, grad_inputs \in [1 .. NumArgs -> GradVars] :
           check_func_backward_inputs(func, grad_inputs)
    \/ \E s \in Slot, v \in Val : MutateOutArray(s, v)
    \/ \E input_vars \in VarLists : mark_static_vars(input_vars)
    \/ \E func \in Func : call_is_static_func(func)
    \/ \E func \in Func : call_get_static_schedule(func)

\* Every operation in any order.  The three parts below are checked apart:
\* forward bookkeeping writes only _forward_static_arrays_info, the outputs
\* side only gradients and the contents of _in_arrays, the inputs side only
\* gradients and _out_arrays.
Spec == Init /\ [][Next]_vars

\* The forward pass: trace-mode management and forward bookkeeping.  The
\* backward bookkeeping writes none of the state these actions read.
NextForward ==
    \/ EnterTrace
    \/ ExitTrace
    \/ \E func \in Func : SetScheduleFunc(func)
    \/ \E func \in Func, in_vars \in [1 .. NumArgs -> InputVars] :
           static_forward_optimizations(func, in_vars)

SpecForward == Init /\ [][NextForward]_vars

\* The outputs side of the backward pass, after a trace that recorded the
\* chain's outputs.
NextBackwardOutputs ==
    \/ EnterTrace
    \/ ExitTrace
    \/ \E func \in Func : SetScheduleFunc(func)
    \/ \E func \in Func, p \in Position, s \in Slot : RecordBackwardInfo(func, p, s)
    \/ \E func \in Func, grad_outputs \in [1 .. NumArgs -> GradVars] :
           check_func_backward_outputs(func, grad_outputs)

SpecBackwardOutputs == Init /\ [][NextBackwardOutputs]_vars

\* The inputs side of the backward pass, after forward bookkeeping, with the
\* replays of the backward schedule.
NextBackwardInputs ==
    \/ EnterTrace
    \/ ExitTrace
    \/ \E func \in Func : SetScheduleFunc(func)
    \/ \E func \in Func, in_vars \in [1 .. NumArgs -> InputVars] :
           static_forward_optimizations(func, in_vars)
    \/ \E func \in Func, grad_inputs \in [1 .. NumArgs -> GradVars] :
           check_func_backward_inputs(func, grad_inputs)
    \/ \E s \in Slot, v \in Val : MutateOutArray(s, v)

SpecBackwardInputs == Init /\ [][NextBackwardInputs]_vars

\* The pairs a function node carries in its two lists together.
RecordedPairs(func) ==
    Len(forward_static_arrays_info[func].items)
        + Len(backward_static_arrays_info[func].items)

\* The three bookkeeping calls in any order, for function nodes that carry
\* at most MaxInfo pairs in their two lists together, without replays.
NextBookkeeping ==
    \/ EnterTrace
    \/ ExitTrace
    \/ \E func \in Func : SetScheduleFunc(func)
    \/ \E func \in Func, p \in Position, s \in Slot :
           RecordedPairs(func) < MaxInfo /\ RecordBackwardInfo(func, p, s)
    \/ \E func \in Func, in_vars \in [1 .. NumArgs -> InputVars] :
           /\ static_forward_optimizations(func, in_vars)
           /\ Len(forward_static_arrays_info'[func].items)
                  + Len(backward_static_arrays_info[func].items) <= MaxInfo
    \/ \E func \in Func, grad_outputs \in [1 .. NumArgs -> GradVars] :
           check_func_backward_outputs(func, grad_outputs)
    \/ \E func \in Func, grad_inputs \in [1 .. NumArgs -> GradVars] :
           check_func_backward_inputs(func, grad_inputs)

SpecBookkeeping == Init /\ [][NextBookkeeping]_vars

\* Marking of variables, in and out of the trace pass of a static chain.
NextMarking ==
    \/ EnterTrace
    \/ ExitTrace
    \/ \E func \in Func : SetScheduleFunc(func)
    \/ \E input_vars \in VarLists : mark_static_vars(input_vars)

SpecMarking == Init /\ [][NextMarking]_vars

\* The two queries, asked at any point of the forward pass.
NextQueries ==
    \/ EnterTrace
    \/ ExitTrace
    \/ \E func \in Func : SetScheduleFunc(func)
    \/ \E func \in Func, in_vars \in [1 .. NumArgs -> InputVars] :
           static_forward_optimizations(func, in_vars)
    \/ \E func \in Func : call_is_static_func(func)
    \/ \E func \in Func : call_get_static_schedule(func)

SpecQueries == Init /\ [][NextQueries]_vars
\* ---------------------------------------------------------------- the last call
FWD == "static_forward_optimizations"
OUT == "check_func_backward_outputs"
INP == "check_func_backward_inputs"

\* The forward call was made in trace mode.
TracedForward == call.name = FWD /\ pre.config_schedule_func # None

OldForward == pre.forward_static_arrays_info[call.func].items
NowForward == forward_static_arrays_info[call.func].items

\* The entries the last forward call added, given that it kept the old ones.
AddedForward == SubSeq(NowForward, Len(OldForward) + 1, Len(NowForward))

\* The array an argument of the last call referenced when the call was made.
ArgArray(func_arg_index) == pre.data[call.args[func_arg_index + 1]]

Registered(buf) == buf \in DOMAIN pre.input_var_array_to_static_array_index

\* ---------------------------------------------------------------- forward claims
\* C1: when forward bookkeeping raises for a function that does not support
\* static optimizations, the function's _forward_static_arrays_info is what
\* it was before the call.
C1_FailedCallCommitsNothing ==
    (call.name = FWD /\ call.err = "RuntimeError") =>
        forward_static_arrays_info = pre.forward_static_arrays_info

\* C2: in trace mode forward bookkeeping raises RuntimeError exactly when the
\* function does not support static optimizations, whatever its inputs match,
\* and raises nothing else.
C2_ErrorIffUnsupported ==
    TracedForward =>
        /\ call.err \in {None, "RuntimeError"}
        /\ call.err = "RuntimeError" <=>
               ~pre.supports_static_optimizations[call.func]

\* The error is raised although no input matches a slot.
C2_Witness ==
    /\ TracedForward
    /\ call.err = "RuntimeError"
    /\ \A i \in Position : ~Registered(ArgArray(i))

\* C3: outside trace mode forward bookkeeping raises nothing and changes
\* nothing: function attributes, variables, arrays and schedule tables.
C3_NoOpOutsideTrace ==
    (call.name = FWD /\ pre.config_schedule_func = None) =>
        /\ call.err = None
        /\ Snapshot = pre

\* Called outside trace mode for an unsupported function with registered inputs.
C3_Witness ==
    /\ call.name = FWD
    /\ pre.config_schedule_func = None
    /\ ~supports_static_optimizations[call.func]
    /\ \A i \in Position : Registered(ArgArray(i))

\* C5: in trace mode an entry (i, slot) is added for position i exactly when
\* the identity of in_vars[i].data is a key of the schedule's table, with the
\* slot the table holds for it; equal contents do not make a match.
C5_IdentityMatching ==
    TracedForward =>
        \A i \in Position :
            LET hits == {k \in 1 .. Len(AddedForward) : AddedForward[k][1] = i}
            IN  IF Registered(ArgArray(i))
                THEN /\ Cardinality(hits) = 1
                     /\ \A k \in hits :
                            AddedForward[k][2] =
                                pre.input_var_array_to_static_array_index[ArgArray(i)]
                ELSE hits = {}

\* A registered array and an unregistered array of equal contents in one call.
C5_Witness ==
    /\ TracedForward
    /\ \E i, j \in Position :
           /\ Registered(ArgArray(i))
           /\ ~Registered(ArgArray(j))
           /\ pre.content[ArgArray(i)] = pre.content[ArgArray(j)]
           /\ Len(AddedForward) = 1

\* C8: a forward call in trace mode keeps every entry recorded before, in
\* order, and adds its own after them.
C8_AppendOnly ==
    TracedForward =>
        /\ pre.forward_static_arrays_info[call.func].has =>
               forward_static_arrays_info[call.func].has
        /\ Len(NowForward) >= Len(OldForward)
        /\ SubSeq(NowForward, 1, Len(OldForward)) = OldForward

\* The second call matched another slot than the first: two entries.
C8_Witness ==
    /\ TracedForward
    /\ Len(OldForward) = 1
    /\ Len(NowForward) = 2
    /\ NowForward[1][2] # NowForward[2][2]

\* C9: the same registered array at several positions of one call gives one
\* entry per position, in increasing position order, all with its slot.
C9_OneEntryPerPosition ==
    TracedForward =>
        \A i, j \in Position :
            (i < j /\ Registered(ArgArray(i)) /\ ArgArray(i) = ArgArray(j)) =>
                \E k, l \in 1 .. Len(AddedForward) :
                    /\ k < l
                    /\ AddedForward[k] =
                           <<i, pre.input_var_array_to_static_array_index[ArgArray(i)]>>
                    /\ AddedForward[l] =
                           <<j, pre.input_var_array_to_static_array_index[ArgArray(i)]>>

\* One registered array passed at two positions through two wrappers.
C9_Witness ==
    /\ TracedForward
    /\ \E i, j \in Position :
           /\ i < j
           /\ call.args[i + 1] # call.args[j + 1]
           /\ Registered(ArgArray(i))
           /\ ArgArray(i) = ArgArray(j)
    /\ Len(AddedForward) = 2

\* ---------------------------------------------------------------- backward claims
\* The last backward call went through its loop over the recorded pairs.
DoneOutputs ==
    /\ call.name = OUT
    /\ call.err = None
    /\ pre.backward_static_arrays_info[call.func].has

DoneInputs ==
    /\ call.name = INP
    /\ call.err = None
    /\ pre.forward_static_arrays_info[call.func].has

PairsOut == pre.backward_static_arrays_info[call.func].items
PairsIn == pre.forward_static_arrays_info[call.func].items

\* The gradient variable a recorded pair names in the last call.
GradOf(pair) == call.args[pair[1] + 1]

\* C4: the backward bookkeeping calls never raise; a function node that has
\* recorded pairs but no schedule_func is skipped with nothing changed.
C4_BackwardNeverRaises ==
    call.name \in {OUT, INP} =>
        /\ call.err = None
        /\ pre.schedule_func[call.func] = Missing => Snapshot = pre

C7_CopyIndependenceEveryPair ==
    DoneInputs =>
        \A k \in 1 .. Len(PairsIn) :
            LET g == GradOf(PairsIn[k])
                slot == PairsIn[k][2]
            IN  /\ out_arrays[slot] = pre.data[g]
                /\ data[g] # out_arrays[slot]
                /\ content[data[g]] = pre.content[pre.data[g]]

\* C7 amended: the slot's output array is the array the gradient referenced
\* before the call when no later pair names the same slot and no earlier pair
\* names the same gradient variable; in every case the gradient references
\* an array that is none of the schedule's output arrays, so not its former
\* array while a slot holds that one, with its former contents, also after
\* replays wrote the output arrays.
C7_CopyIndependence ==
    DoneInputs =>
        \A k \in 1 .. Len(PairsIn) :
            LET g == GradOf(PairsIn[k])
                slot == PairsIn[k][2]
            IN  /\ (/\ \A j \in (k + 1) .. Len(PairsIn) : PairsIn[j][2] # slot
                    /\ \A j \in 1 .. (k - 1) : GradOf(PairsIn[j]) # g) =>
                       out_arrays[slot] = pre.data[g]
                /\ \A s \in Slot : out_arrays[s] # data[g]
                /\ content[data[g]] = pre.content[pre.data[g]]

\* A replay changed the contents of the output array that is the gradient's
\* former array, and the gradient's contents are still the former ones.
C7_Witness ==
    /\ DoneInputs
    /\ call.replayed
    /\ \E k \in 1 .. Len(PairsIn) :
           LET g == GradOf(PairsIn[k])
               slot == PairsIn[k][2]
           IN  /\ out_arrays[slot] = pre.data[g]
               /\ content[out_arrays[slot]] # pre.content[pre.data[g]]
               /\ content[data[g]] = pre.content[pre.data[g]]

C11_NoOpWithoutInfo ==
    /\ (call.name = OUT /\ ~pre.backward_static_arrays_info[call.func].has) =>
           (call.err = None /\ Snapshot = pre)
    /\ (call.name = INP /\ ~pre.forward_static_arrays_info[call.func].has) =>
           (call.err = None /\ Snapshot = pre)

\* An outputs-side call in trace mode for a function node that has forward
\* pairs, no _backward_static_arrays_info and no schedule_func.
C11_Witness ==
    /\ call.name = OUT
    /\ ~pre.backward_static_arrays_info[call.func].has
    /\ Len(pre.forward_static_arrays_info[call.func].items) > 0
    /\ pre.schedule_func[call.func] = Missing
    /\ pre.config_schedule_func # None
    /\ Snapshot = pre

MARK == "mark_static_vars"

\* C12: in trace mode mark_static_vars leaves is_static True on every
\* variable of its list and as it was on the others; outside trace mode it
\* changes no mark; in both cases data references, contents, function
\* attributes and schedule tables are what they were.
C12_MarkOnlyInTrace ==
    call.name = MARK =>
        /\ call.err = None
        /\ [Snapshot EXCEPT !.is_static = pre.is_static] = pre
        /\ IF pre.config_schedule_func # None
           THEN \A v \in Var :
                    is_static[v] =
                        IF \E k \in 1 .. Len(call.args) : call.args[k] = v
                        THEN TRUE
                        ELSE pre.is_static[v]
           ELSE is_static = pre.is_static

\* Two unmarked variables marked by one call in trace mode, one of them
\* sharing its array with a variable that stays unmarked.
C12_Witness ==
    /\ call.name = MARK
    /\ pre.config_schedule_func # None
    /\ Len(call.args) = 2
    /\ call.args[1] # call.args[2]
    /\ \A k \in 1 .. 2 : ~pre.is_static[call.args[k]] /\ is_static[call.args[k]]
    /\ \E v \in Var :
           /\ ~is_static[v]
           /\ data[v] = data[call.args[1]]

\* ---------------------------------------------------------------- query claims
ISSTATIC == "is_static_func"
GETSCHEDULE == "get_static_schedule"

\* C13: in every state, for every function node, is_static_func is True
\* exactly when get_static_schedule returns a schedule and not None; a call
\* of either query returns that value for the state it was made in, raises
\* nothing and leaves the whole state as it was.
C13_QueriesAgree ==
    /\ \A func \in Func :
           is_static_func(func) <=> get_static_schedule(func) # None
    /\ call.name \in {ISSTATIC, GETSCHEDULE} =>
           /\ call.err = None
           /\ Snapshot = pre
    /\ call.name = ISSTATIC =>
           (call.ret <=> get_static_schedule(call.func) # None)
    /\ call.name = GETSCHEDULE =>
           (call.ret # None <=> is_static_func(call.func))

\* is_static_func answered True for a function node that was given its
\* schedule_func and its forward pairs in the trace pass.
C13_Witness ==
    /\ call.name = ISSTATIC
    /\ call.ret = TRUE
    /\ get_static_schedule(call.func) = TheSchedule
    /\ forward_static_arrays_info[call.func].has

\* ---------------------------------------------------------------- buffer identity
\* C14: after any sequence of forward, outputs-side and inputs-side calls
\* every _in_arrays[slot] is the array the schedule was built with; its
\* contents change only in an outputs-side call that returned and has a pair
\* naming the slot; an inputs-side call leaves _in_arrays and the contents
\* of its arrays as they were, and an outputs-side call leaves _out_arrays
\* as it was.
C14_InArraysKeepIdentity ==
    /\ \A s \in Slot : in_arrays[s] = NSlots + 2 + s
    /\ in_arrays = pre.in_arrays
    /\ \A s \in Slot :
           content[in_arrays[s]] # pre.content[pre.in_arrays[s]] =>
               /\ DoneOutputs
               /\ \E k \in 1 .. Len(PairsOut) : PairsOut[k][2] = s
    /\ call.name = INP =>
           \A s \in Slot : content[in_arrays[s]] = pre.content[pre.in_arrays[s]]
    /\ call.name = OUT => out_arrays = pre.out_arrays

\* An outputs-side call changed the contents of a slot's pre-allocated
\* array, which an earlier inputs-side call had made a slot's output array,
\* and which is still the array the schedule was built with.
C14_Witness ==
    /\ DoneOutputs
    /\ \E k \in 1 .. Len(PairsOut) :
           LET slot == PairsOut[k][2]
           IN  /\ content[in_arrays[slot]] # pre.content[pre.in_arrays[slot]]
               /\ in_arrays[slot] = NSlots + 2 + slot
               /\ \E s \in Slot : out_arrays[s] = in_arrays[slot]
    /\ Len(forward_static_arrays_info[call.func].items) > 0
====
